---- MODULE Spec2Model ----
(***************************************************************************)
(* The variable-height virtualization engine of agui-desktop:              *)
(*   VirtualList  (src/crates/agui-desktop/src/stream/virtual_list.rs)     *)
(*   StreamState  (src/crates/agui-desktop/src/stream/state.rs)            *)
(*                                                                         *)
(* The source holds every length as an f32 number of pixels.  The model    *)
(* holds a length as an integer number of HALF pixels, so that the 0.5 px  *)
(* epsilon of set_item_height is one unit and every value the model uses   *)
(* is an exactly representable f32 (sums stay far below 2^24).  Px(n) is   *)
(* the length of n pixels.  Rust's 0-based index i is position i + 1 of a  *)
(* TLA+ sequence.                                                          *)
(***************************************************************************)
EXTENDS Integers, Sequences, FiniteSets, TLC

VARIABLES virtual_list, state, last

vars == <<virtual_list, state, last>>

Px(n) == 2 * n

(***************************************************************************)
(* Bounds of the model.                                                    *)
(***************************************************************************)
MaxItems == 3

------------------------------------------------------------------------------
(***************************************************************************)
(* Program constants.                                                      *)
(***************************************************************************)
DefaultOverscan == 3
MinItemHeightPx == 40
MaxItemHeightPx == 500
DefaultItemHeightPx == 80
ScrollSpeed == 40
InitialViewportHeightPx == 600
HeightEpsilon == 1
AtBottomTolerancePx == 10

\* The overscan values the configuration is drawn from (a public field of
\* VirtualListConfig; 3 is the default).
Overscans == {0, 1, DefaultOverscan}

\* The configuration of test_visible_range: default_item_height 50, overscan 2.
TestItemHeightPx == 50
TestOverscan == 2

VirtualListConfig(overscan) ==
    [overscan            |-> overscan,
     min_item_height     |-> Px(MinItemHeightPx),
     max_item_height     |-> Px(MaxItemHeightPx),
     default_item_height |-> Px(DefaultItemHeightPx),
     scroll_speed        |-> ScrollSpeed]

TestConfig ==
    [VirtualListConfig(TestOverscan) EXCEPT
         !.default_item_height = Px(TestItemHeightPx)]

\* A configuration whose minimum height lies above its maximum; the fields
\* are public and new() accepts any value.
InvertedConfig ==
    [VirtualListConfig(DefaultOverscan) EXCEPT
         !.min_item_height = Px(MaxItemHeightPx),
         !.max_item_height = Px(MinItemHeightPx)]

------------------------------------------------------------------------------
(***************************************************************************)
(* f32 / usize / Vec helpers of the Rust standard library, as the code     *)
(* uses them.                                                              *)
(***************************************************************************)
\* An f32 is its number of half pixels, or NaN: a value apart from every
\* length, which the operators below tell from a number before they compute.
NaN == 0 - 1000000

f32_is_nan(a) == a = NaN

\* Comparisons with NaN are false.
f32_lt(a, b) == ~f32_is_nan(a) /\ ~f32_is_nan(b) /\ a < b

f32_gt(a, b) == ~f32_is_nan(a) /\ ~f32_is_nan(b) /\ a > b

\* Arithmetic on NaN gives NaN.
f32_sub(a, b) == IF f32_is_nan(a) \/ f32_is_nan(b) THEN NaN ELSE a - b

f32_max(a, b) == IF a >= b THEN a ELSE b

usize_min(a, b) == IF a <= b THEN a ELSE b

f32_abs(a) == IF f32_is_nan(a) THEN NaN ELSE IF a < 0 THEN 0 - a ELSE a

\* f32::clamp(self, min, max): both comparisons fail on NaN, which is
\* returned as it is.
f32_clamp(x, lo, hi) ==
    IF f32_lt(x, lo) THEN lo ELSE IF f32_gt(x, hi) THEN hi ELSE x

\* f32::clamp asserts min <= max and panics otherwise.
f32_clamp_panics(lo, hi) == lo > hi

saturating_sub(a, b) == IF a >= b THEN a - b ELSE 0

\* Faulty variant: a grown vector is filled with its last element.
vec_resize_repeats_last(v, new_len, value) ==
    IF new_len <= Len(v)
    THEN SubSeq(v, 1, new_len)
    ELSE v \o [k \in 1..(new_len - Len(v)) |->
                  IF v = <<>> THEN value ELSE v[Len(v)]]

\* Vec::resize(new_len, value)
vec_resize(v, new_len, value) ==
    IF new_len <= Len(v)
    THEN SubSeq(v, 1, new_len)
    ELSE v \o [k \in 1..(new_len - Len(v)) |-> value]

\* slice::binary_search_by(|h| h.partial_cmp(&offset)): the loop of the
\* standard library; Ok(idx) and Err(idx) both yield idx at the call site.
RECURSIVE binary_search_loop(_, _, _, _)
binary_search_loop(s, x, left, right) ==
    IF left >= right
    THEN left
    ELSE LET size == right - left
             mid  == left + (size \div 2)
         IN  IF s[mid + 1] < x
             THEN binary_search_loop(s, x, mid + 1, right)
             ELSE IF s[mid + 1] > x
                  THEN binary_search_loop(s, x, left, mid)
                  ELSE mid

\* Faulty variant: an exact match is passed over, as an upper-bound
\* search would.
binary_search_by_upper_bound(s, x) ==
    LET idx == binary_search_loop(s, x, 0, Len(s))
    IN  IF idx < Len(s) /\ s[idx + 1] = x THEN idx + 1 ELSE idx

binary_search_by(s, x) == binary_search_loop(s, x, 0, Len(s))

------------------------------------------------------------------------------
(***************************************************************************)
(* VirtualList                                                             *)
(***************************************************************************)
VL_new(config) ==
    [config             |-> config,
     item_count         |-> 0,
     heights            |-> <<>>,
     cumulative_heights |-> <<>>,
     total_height       |-> 0,
     scroll_offset      |-> 0,
     viewport_height    |-> Px(InitialViewportHeightPx),
     dirty              |-> FALSE]

\* Faulty variant: a shrink lowers item_count and leaves `heights` as long
\* as it was.
VL_set_item_count_keeps_heights(l, count) ==
    IF count # l.item_count
    THEN [l EXCEPT !.item_count = count,
                   !.heights = IF count > Len(l.heights)
                               THEN vec_resize(l.heights, count,
                                               l.config.default_item_height)
                               ELSE l.heights,
                   !.dirty = TRUE]
    ELSE l

VL_set_item_count(l, count) ==
    IF count # l.item_count
    THEN [l EXCEPT !.item_count = count,
                   !.heights = vec_resize(l.heights, count,
                                          l.config.default_item_height),
                   !.dirty = TRUE]
    ELSE l

\* Faulty variant: the stored offset is cut to the new maximum on a resize.
VL_set_viewport_height_reclamps(l, height) ==
    LET max_scroll == f32_max(l.total_height - height, 0)
    IN  [l EXCEPT !.viewport_height = height,
                  !.scroll_offset = f32_clamp(l.scroll_offset, 0, max_scroll)]

VL_set_viewport_height(l, height) == [l EXCEPT !.viewport_height = height]

\* Faulty variant: a changed height is stored without marking the index
\* dirty.
VL_set_item_height_leaves_clean(l, index, height) ==
    IF index < Len(l.heights)
    THEN LET clamped == f32_clamp(height, l.config.min_item_height,
                                  l.config.max_item_height)
         IN  IF f32_abs(l.heights[index + 1] - clamped) > HeightEpsilon
             THEN [l EXCEPT !.heights[index + 1] = clamped]
             ELSE l
    ELSE l

\* Faulty variant: a difference of exactly the epsilon counts as a change.
VL_set_item_height_epsilon_inclusive(l, index, height) ==
    IF index < Len(l.heights)
    THEN LET clamped == f32_clamp(height, l.config.min_item_height,
                                  l.config.max_item_height)
         IN  IF f32_abs(l.heights[index + 1] - clamped) >= HeightEpsilon
             THEN [l EXCEPT !.heights[index + 1] = clamped, !.dirty = TRUE]
             ELSE l
    ELSE l

\* Faulty variant: the reported height is stored as it is, unclamped.
VL_set_item_height_unclamped(l, index, height) ==
    IF index < Len(l.heights)
    THEN IF f32_abs(l.heights[index + 1] - height) > HeightEpsilon
         THEN [l EXCEPT !.heights[index + 1] = height, !.dirty = TRUE]
         ELSE l
    ELSE l

\* Faulty variant: a report for an index out of range marks the index dirty.
VL_set_item_height_dirties_out_of_range(l, index, height) ==
    IF index < Len(l.heights)
    THEN LET clamped == f32_clamp(height, l.config.min_item_height,
                                  l.config.max_item_height)
         IN  IF f32_abs(l.heights[index + 1] - clamped) > HeightEpsilon
             THEN [l EXCEPT !.heights[index + 1] = clamped, !.dirty = TRUE]
             ELSE l
    ELSE [l EXCEPT !.dirty = TRUE]

VL_set_item_height(l, index, height) ==
    IF index < Len(l.heights)
    THEN LET clamped == f32_clamp(height, l.config.min_item_height,
                                  l.config.max_item_height)
         IN  IF f32_gt(f32_abs(f32_sub(l.heights[index + 1], clamped)),
                       HeightEpsilon)
             THEN [l EXCEPT !.heights[index + 1] = clamped, !.dirty = TRUE]
             ELSE l
    ELSE l

\* set_item_height panics in f32::clamp, which an index in range reaches
\* before anything is written.
VL_set_item_height_panics(l, index, height) ==
    /\ index < Len(l.heights)
    /\ f32_clamp_panics(l.config.min_item_height, l.config.max_item_height)

\* Faulty variant: the entries of the batch are applied last to first.
RECURSIVE VL_set_item_heights_reversed(_, _)
VL_set_item_heights_reversed(l, batch) ==
    IF batch = <<>>
    THEN l
    ELSE LET rest   == VL_set_item_heights_reversed(l, Tail(batch))
             index  == Head(batch)[1]
             height == Head(batch)[2]
         IN  IF index < Len(rest.heights)
             THEN LET clamped == f32_clamp(height, rest.config.min_item_height,
                                           rest.config.max_item_height)
                  IN  IF f32_abs(rest.heights[index + 1] - clamped) > HeightEpsilon
                      THEN [rest EXCEPT !.heights[index + 1] = clamped,
                                        !.dirty = TRUE]
                      ELSE rest
             ELSE rest

\* The batch form repeats the body of set_item_height for each entry.
RECURSIVE VL_set_item_heights(_, _)
VL_set_item_heights(l, batch) ==
    IF batch = <<>>
    THEN l
    ELSE LET index  == Head(batch)[1]
             height == Head(batch)[2]
             next   ==
                 IF index < Len(l.heights)
                 THEN LET clamped == f32_clamp(height, l.config.min_item_height,
                                               l.config.max_item_height)
                      IN  IF f32_gt(f32_abs(f32_sub(l.heights[index + 1], clamped)),
                                    HeightEpsilon)
                          THEN [l EXCEPT !.heights[index + 1] = clamped,
                                         !.dirty = TRUE]
                          ELSE l
                 ELSE l
         IN  VL_set_item_heights(next, Tail(batch))

\* The batch panics at its first entry in range; the entries before it
\* were out of range and wrote nothing.
VL_set_item_heights_panics(l, batch) ==
    \E k \in 1..Len(batch) :
        VL_set_item_height_panics(l, batch[k][1], batch[k][2])

\* Faulty variant: the sum is pushed before the height is added.
RECURSIVE VL_accumulate_push_first(_, _, _)
VL_accumulate_push_first(hs, sum, acc) ==
    IF hs = <<>>
    THEN [cumulative_heights |-> acc, sum |-> sum]
    ELSE VL_accumulate_push_first(Tail(hs), sum + Head(hs), Append(acc, sum))

\* The loop of ensure_calculated: the running sums of `heights`.
RECURSIVE VL_accumulate(_, _, _)
VL_accumulate(hs, sum, acc) ==
    IF hs = <<>>
    THEN [cumulative_heights |-> acc, sum |-> sum]
    ELSE VL_accumulate(Tail(hs), sum + Head(hs), Append(acc, sum + Head(hs)))

\* Faulty variant: the rebuild runs whether the index is dirty or not, and
\* pushes onto the index without clearing it.
VL_ensure_calculated_appends(l) ==
    LET r == VL_accumulate(l.heights, 0, l.cumulative_heights)
    IN  [l EXCEPT !.cumulative_heights = r.cumulative_heights,
                  !.total_height = r.sum,
                  !.dirty = FALSE]

\* Faulty variant: the rebuild does not clear the dirty flag.
VL_ensure_calculated_leaves_dirty(l) ==
    IF ~l.dirty
    THEN l
    ELSE LET r == VL_accumulate(l.heights, 0, <<>>)
         IN  [l EXCEPT !.cumulative_heights = r.cumulative_heights,
                       !.total_height = r.sum]

VL_ensure_calculated(l) ==
    IF ~l.dirty
    THEN l
    ELSE LET r == VL_accumulate(l.heights, 0, <<>>)
         IN  [l EXCEPT !.cumulative_heights = r.cumulative_heights,
                       !.total_height = r.sum,
                       !.dirty = FALSE]

\* Whether a call of ensure_calculated runs the rebuild loop: it returns
\* early when the index is not dirty.
VL_rebuilds(l) == l.dirty

\* In an immutable context nothing is recalculated.
VL_ensure_calculated_immut(l) == l

\* Faulty variant: the offset is clamped from below only.
VL_set_scroll_offset_no_upper_clamp(l, offset) ==
    LET c == VL_ensure_calculated(l)
    IN  [c EXCEPT !.scroll_offset = f32_max(offset, 0)]

VL_set_scroll_offset(l, offset) ==
    LET c          == VL_ensure_calculated(l)
        max_scroll == f32_max(c.total_height - c.viewport_height, 0)
    IN  [c EXCEPT !.scroll_offset = f32_clamp(offset, 0, max_scroll)]

VL_scroll_by(l, delta) ==
    VL_set_scroll_offset(l, l.scroll_offset + delta * l.config.scroll_speed)

VL_scroll_to_bottom(l) ==
    LET c          == VL_ensure_calculated(l)
        max_scroll == f32_max(c.total_height - c.viewport_height, 0)
    IN  [c EXCEPT !.scroll_offset = max_scroll]

VL_total_height(l) == VL_ensure_calculated_immut(l).total_height

VL_item_offset(l, index) ==
    LET c == VL_ensure_calculated_immut(l)
    IN  IF index = 0
        THEN 0
        ELSE IF index <= Len(c.cumulative_heights)
             THEN c.cumulative_heights[index]
             ELSE c.total_height

\* Faulty variant: scrolling down forgets to subtract the viewport height.
VL_scroll_to_item_past_viewport(l, index) ==
    LET c == VL_ensure_calculated(l)
    IN  IF index >= c.item_count
        THEN c
        ELSE LET item_top    == VL_item_offset(c, index)
                 item_bottom == item_top + c.heights[index + 1]
             IN  IF item_top < c.scroll_offset
                 THEN [c EXCEPT !.scroll_offset = item_top]
                 ELSE IF item_bottom > c.scroll_offset + c.viewport_height
                      THEN [c EXCEPT !.scroll_offset = item_bottom]
                      ELSE c

\* Faulty variant: an item below the viewport is brought to its top edge
\* instead of its bottom edge.
VL_scroll_to_item_top_aligned(l, index) ==
    LET c == VL_ensure_calculated(l)
    IN  IF index >= c.item_count
        THEN c
        ELSE LET item_top    == VL_item_offset(c, index)
                 item_bottom == item_top + c.heights[index + 1]
             IN  IF item_top < c.scroll_offset
                 THEN [c EXCEPT !.scroll_offset = item_top]
                 ELSE IF item_bottom > c.scroll_offset + c.viewport_height
                      THEN [c EXCEPT !.scroll_offset = item_top]
                      ELSE c

VL_scroll_to_item(l, index) ==
    LET c == VL_ensure_calculated(l)
    IN  IF index >= c.item_count
        THEN c
        ELSE LET item_top    == VL_item_offset(c, index)
                 item_bottom == item_top + c.heights[index + 1]
             IN  IF item_top < c.scroll_offset
                 THEN [c EXCEPT !.scroll_offset = item_top]
                 ELSE IF item_bottom > c.scroll_offset + c.viewport_height
                      THEN [c EXCEPT !.scroll_offset =
                                         item_bottom - c.viewport_height]
                      ELSE c

VL_find_item_at_offset(l, offset) ==
    IF l.cumulative_heights = <<>>
    THEN 0
    ELSE usize_min(binary_search_by(l.cumulative_heights, offset),
                   saturating_sub(l.item_count, 1))

\* Faulty variant: the end of the range leaves out the item at end_idx.
VL_visible_range_end_exclusive(l) ==
    LET c == VL_ensure_calculated_immut(l)
    IN  IF c.item_count = 0
        THEN [start |-> 0, end |-> 0, start_offset |-> 0]
        ELSE LET start_idx == VL_find_item_at_offset(c, c.scroll_offset)
                 end_idx   ==
                     usize_min(VL_find_item_at_offset(
                                   c, c.scroll_offset + c.viewport_height),
                               c.item_count - 1)
                 start == saturating_sub(start_idx, c.config.overscan)
                 end   == usize_min(end_idx + c.config.overscan, c.item_count)
             IN  [start |-> start, end |-> end,
                  start_offset |-> VL_item_offset(c, start)]

VL_visible_range(l) ==
    LET c == VL_ensure_calculated_immut(l)
    IN  IF c.item_count = 0
        THEN [start |-> 0, end |-> 0, start_offset |-> 0]
        ELSE LET start_idx == VL_find_item_at_offset(c, c.scroll_offset)
                 end_idx   ==
                     usize_min(VL_find_item_at_offset(
                                   c, c.scroll_offset + c.viewport_height),
                               c.item_count - 1)
                 start == saturating_sub(start_idx, c.config.overscan)
                 end   == usize_min(end_idx + 1 + c.config.overscan,
                                    c.item_count)
             IN  [start |-> start, end |-> end,
                  start_offset |-> VL_item_offset(c, start)]

VL_is_at_bottom(l) ==
    LET c          == VL_ensure_calculated_immut(l)
        max_scroll == f32_max(c.total_height - c.viewport_height, 0)
    IN  c.scroll_offset >= max_scroll - Px(AtBottomTolerancePx)

VL_is_at_top(l) == l.scroll_offset <= 0

VL_get_item_height(l, index) ==
    IF index < Len(l.heights)
    THEN l.heights[index + 1]
    ELSE l.config.default_item_height

------------------------------------------------------------------------------
(***************************************************************************)
(* StreamItem (src/crates/agui-desktop/src/stream/types.rs)                *)
(***************************************************************************)
ceil_div(a, b) == (a + b - 1) \div b

\* A content value carries what estimated_height and toggle_expanded read:
\* its variant, the length of its text, the number of plan items, and the
\* variant's own `expanded` flag.
UserMessage(len) == [type |-> "UserMessage", len |-> len, expanded |-> FALSE]

ToolCall(expanded) == [type |-> "ToolCall", len |-> 0, expanded |-> expanded]

StreamItem_new(id, content) ==
    [id |-> id, content |-> content, expanded |-> FALSE]

estimated_height(item) ==
    LET c == item.content
    IN  CASE c.type = "UserMessage"  -> Px(60 + ceil_div(c.len, 60) * 20)
          [] c.type = "AgentMessage" -> Px(80 + ceil_div(c.len, 60) * 20)
          [] c.type = "Reasoning"    -> Px(48)
          [] c.type = "ToolCall"     -> Px(100 + (IF c.expanded THEN 80 ELSE 0))
          [] c.type = "Plan"         -> Px(60 + c.len * 32)
          [] c.type = "Approval"     -> Px(120)
          [] c.type = "StatusUpdate" -> Px(40)
          [] c.type = "Divider"      -> Px(24)

------------------------------------------------------------------------------
(***************************************************************************)
(* StreamState                                                             *)
(***************************************************************************)
\* Option<T>: None is the empty sequence, Some(x) the sequence of x alone.
None == <<>>

Some(x) == <<x>>

AutoScrollTolerancePx == 50

SS_new ==
    [items           |-> <<>>,
     item_index      |-> <<>>,
     selected_id     |-> None,
     scroll_offset   |-> 0,
     viewport_height |-> Px(InitialViewportHeightPx),
     total_height    |-> 0,
     auto_scroll     |-> TRUE,
     height_cache    |-> <<>>,
     height_dirty    |-> FALSE]

\* HashMap::insert
map_insert(m, k, v) == (k :> v) @@ m

RECURSIVE SS_accumulate(_, _, _)
SS_accumulate(items, accumulated, cache) ==
    IF items = <<>>
    THEN [height_cache |-> cache, accumulated |-> accumulated]
    ELSE SS_accumulate(Tail(items),
                       accumulated + estimated_height(Head(items)),
                       Append(cache, accumulated + estimated_height(Head(items))))

SS_recalculate_heights_if_dirty(s) ==
    IF ~s.height_dirty
    THEN s
    ELSE LET r == SS_accumulate(s.items, 0, <<>>)
         IN  [s EXCEPT !.height_cache = r.height_cache,
                       !.total_height = r.accumulated,
                       !.height_dirty = FALSE]

\* The workaround for immutable access recalculates nothing.
SS_recalculate_heights_if_dirty_immut(s) == s

\* Faulty variant: the offset moves but auto-follow is not re-engaged.
SS_scroll_to_bottom_keeps_flag(s) ==
    LET c          == SS_recalculate_heights_if_dirty(s)
        max_scroll == f32_max(c.total_height - c.viewport_height, 0)
    IN  [c EXCEPT !.scroll_offset = max_scroll]

SS_scroll_to_bottom(s) ==
    LET c          == SS_recalculate_heights_if_dirty(s)
        max_scroll == f32_max(c.total_height - c.viewport_height, 0)
    IN  [c EXCEPT !.scroll_offset = max_scroll, !.auto_scroll = TRUE]

\* Faulty variant: the view is scrolled before the item is appended.
SS_push_scrolls_first(s, item) ==
    LET index == Len(s.items)
        b     == IF s.auto_scroll THEN SS_scroll_to_bottom(s) ELSE s
    IN  [b EXCEPT !.item_index = map_insert(s.item_index, item.id, index),
                  !.items = Append(s.items, item),
                  !.height_dirty = TRUE]

\* Faulty variant: the view follows the new item whatever the flag says.
SS_push_always_follows(s, item) ==
    LET index == Len(s.items)
        p     == [s EXCEPT !.item_index = map_insert(s.item_index, item.id, index),
                           !.items = Append(s.items, item),
                           !.height_dirty = TRUE]
        b     == SS_scroll_to_bottom(p)
    IN  [b EXCEPT !.auto_scroll = p.auto_scroll]

SS_push(s, item) ==
    LET index == Len(s.items)
        p     == [s EXCEPT !.item_index = map_insert(s.item_index, item.id, index),
                           !.items = Append(s.items, item),
                           !.height_dirty = TRUE]
    IN  IF p.auto_scroll THEN SS_scroll_to_bottom(p) ELSE p

SS_update(s, id, content) ==
    IF id \in DOMAIN s.item_index
    THEN [s EXCEPT !.items[s.item_index[id] + 1].content = content,
                   !.height_dirty = TRUE]
    ELSE s

SS_toggle_expanded(s, id) ==
    IF id \in DOMAIN s.item_index
    THEN LET k    == s.item_index[id] + 1
             item == s.items[k]
             c    == item.content
         IN  [s EXCEPT !.items[k].expanded = ~item.expanded,
                       !.items[k].content.expanded =
                           IF c.type \in {"Reasoning", "ToolCall"}
                           THEN ~c.expanded
                           ELSE c.expanded,
                       !.height_dirty = TRUE]
    ELSE s

\* Faulty variant: clear returns auto-follow to its initial value.
SS_clear_resets_auto_scroll(s) ==
    [s EXCEPT !.items = <<>>,
              !.item_index = <<>>,
              !.selected_id = None,
              !.scroll_offset = 0,
              !.total_height = 0,
              !.auto_scroll = TRUE,
              !.height_cache = <<>>,
              !.height_dirty = FALSE]

\* Faulty variant: the selection survives.
SS_clear_keeps_selection(s) ==
    [s EXCEPT !.items = <<>>,
              !.item_index = <<>>,
              !.scroll_offset = 0,
              !.total_height = 0,
              !.height_cache = <<>>,
              !.height_dirty = FALSE]

\* Faulty variant: the id map is not cleared.
SS_clear_keeps_index(s) ==
    [s EXCEPT !.items = <<>>,
              !.selected_id = None,
              !.scroll_offset = 0,
              !.total_height = 0,
              !.height_cache = <<>>,
              !.height_dirty = FALSE]

SS_clear(s) ==
    [s EXCEPT !.items = <<>>,
              !.item_index = <<>>,
              !.selected_id = None,
              !.scroll_offset = 0,
              !.total_height = 0,
              !.height_cache = <<>>,
              !.height_dirty = FALSE]

SS_set_viewport_height(s, height) == [s EXCEPT !.viewport_height = height]

\* Faulty variant: auto-follow is disengaged at the tolerance itself.
SS_set_scroll_offset_at_tolerance(s, offset) ==
    LET c          == SS_recalculate_heights_if_dirty(s)
        max_scroll == f32_max(c.total_height - c.viewport_height, 0)
        d          == [c EXCEPT !.scroll_offset = f32_clamp(offset, 0, max_scroll)]
    IN  IF d.scroll_offset <= max_scroll - Px(AutoScrollTolerancePx)
        THEN [d EXCEPT !.auto_scroll = FALSE]
        ELSE d

\* Faulty variant: an offset within the tolerance of the bottom switches
\* auto-follow back on.
SS_set_scroll_offset_reengages(s, offset) ==
    LET c          == SS_recalculate_heights_if_dirty(s)
        max_scroll == f32_max(c.total_height - c.viewport_height, 0)
        clamped    == f32_clamp(offset, 0, max_scroll)
    IN  [c EXCEPT !.scroll_offset = clamped,
                  !.auto_scroll = ~(clamped < max_scroll - Px(AutoScrollTolerancePx))]

SS_set_scroll_offset(s, offset) ==
    LET c          == SS_recalculate_heights_if_dirty(s)
        max_scroll == f32_max(c.total_height - c.viewport_height, 0)
        d          == [c EXCEPT !.scroll_offset = f32_clamp(offset, 0, max_scroll)]
    IN  IF d.scroll_offset < max_scroll - Px(AutoScrollTolerancePx)
        THEN [d EXCEPT !.auto_scroll = FALSE]
        ELSE d

SS_scroll_by(s, delta) == SS_set_scroll_offset(s, s.scroll_offset + delta)

SS_enable_auto_scroll(s) ==
    SS_scroll_to_bottom([s EXCEPT !.auto_scroll = TRUE])

SS_total_height(s) == SS_recalculate_heights_if_dirty_immut(s).total_height

SS_item_offset(s, index) ==
    LET c == SS_recalculate_heights_if_dirty_immut(s)
    IN  IF index = 0
        THEN 0
        ELSE IF index <= Len(c.height_cache)
             THEN c.height_cache[index]
             ELSE c.total_height

SS_find_item_at_offset(s, offset) ==
    IF s.height_cache = <<>>
    THEN 0
    ELSE binary_search_by(s.height_cache, offset)

SS_visible_range(s) ==
    LET c == SS_recalculate_heights_if_dirty_immut(s)
    IN  IF c.items = <<>>
        THEN <<0, 0>>
        ELSE LET start_offset == c.scroll_offset
                 end_offset   == start_offset + c.viewport_height
                 start_idx    == SS_find_item_at_offset(c, start_offset)
                 end_idx      == usize_min(SS_find_item_at_offset(c, end_offset),
                                           Len(c.items) - 1)
                 buffer       == 2
                 start        == saturating_sub(start_idx, buffer)
                 end          == usize_min(end_idx + buffer, Len(c.items))
             IN  <<start, end>>

RECURSIVE SS_extend(_, _)
SS_extend(s, items) ==
    IF items = <<>> THEN s ELSE SS_extend(SS_push(s, Head(items)), Tail(items))

SS_get(s, id) ==
    IF id \in DOMAIN s.item_index
    THEN Some(s.items[s.item_index[id] + 1])
    ELSE None

SS_len(s) == Len(s.items)

SS_select(s, id) == [s EXCEPT !.selected_id = id]

SS_selected(s) == s.selected_id

\* Faulty variant: at the last item the selection wraps to the first.
SS_select_next_wraps(s) ==
    LET next_id ==
            IF s.selected_id = None
            THEN IF s.items # <<>> THEN Some(s.items[1].id) ELSE None
            ELSE LET id == s.selected_id[1]
                 IN  IF id \in DOMAIN s.item_index
                     THEN LET idx == s.item_index[id]
                          IN  IF idx + 1 < Len(s.items)
                              THEN Some(s.items[idx + 2].id)
                              ELSE Some(s.items[1].id)
                     ELSE None
    IN  [s EXCEPT !.selected_id = next_id]

SS_select_next(s) ==
    LET next_id ==
            IF s.selected_id = None
            THEN IF s.items # <<>> THEN Some(s.items[1].id) ELSE None
            ELSE LET id == s.selected_id[1]
                 IN  IF id \in DOMAIN s.item_index
                     THEN LET idx == s.item_index[id]
                          IN  IF idx + 1 < Len(s.items)
                              THEN Some(s.items[idx + 2].id)
                              ELSE Some(id)
                     ELSE None
    IN  [s EXCEPT !.selected_id = next_id]

SS_select_previous(s) ==
    LET prev_id ==
            IF s.selected_id = None
            THEN IF s.items # <<>> THEN Some(s.items[Len(s.items)].id) ELSE None
            ELSE LET id == s.selected_id[1]
                 IN  IF id \in DOMAIN s.item_index
                     THEN LET idx == s.item_index[id]
                          IN  IF idx > 0
                              THEN Some(s.items[idx].id)
                              ELSE Some(id)
                     ELSE None
    IN  [s EXCEPT !.selected_id = prev_id]

------------------------------------------------------------------------------
(***************************************************************************)
(* StreamTimeline: a StreamState and a VirtualList side by side.           *)
(***************************************************************************)
StreamTimelineConfig ==
    [virtualized |-> TRUE, show_scroll_button |-> TRUE, auto_scroll |-> TRUE]

TL_new ==
    [state        |-> SS_new,
     virtual_list |-> VL_new(VirtualListConfig(DefaultOverscan)),
     config       |-> StreamTimelineConfig]

\* The height is reported for the index the item is about to get, before
\* the list is told of the new count.
TL_push(t, item) ==
    LET reported == VL_set_item_height(t.virtual_list, Len(t.state.items),
                                       estimated_height(item))
        pushed   == SS_push(t.state, item)
        counted  == VL_set_item_count(reported, Len(pushed.items))
    IN  [t EXCEPT !.state = pushed,
                  !.virtual_list =
                      IF t.config.auto_scroll /\ pushed.auto_scroll
                      THEN VL_scroll_to_bottom(counted)
                      ELSE counted]

TL_set_viewport_height(t, height) ==
    [t EXCEPT !.state = SS_set_viewport_height(t.state, height),
              !.virtual_list = VL_set_viewport_height(t.virtual_list, height)]

TL_scroll_by(t, delta) ==
    LET scrolled == VL_scroll_by(t.virtual_list, delta)
    IN  [t EXCEPT !.virtual_list = scrolled,
                  !.state = SS_set_scroll_offset(t.state, scrolled.scroll_offset)]

TL_scroll_to_bottom(t) ==
    [t EXCEPT !.virtual_list = VL_scroll_to_bottom(t.virtual_list),
              !.state = SS_enable_auto_scroll(t.state)]

TL_clear(t) ==
    [t EXCEPT !.state = SS_clear(t.state),
              !.virtual_list = VL_set_item_count(t.virtual_list, 0)]

------------------------------------------------------------------------------
(***************************************************************************)
(* Inputs of the operations.                                               *)
(***************************************************************************)
\* Reported heights: the default and one above the maximum.
HeightInputs == {Px(DefaultItemHeightPx), Px(600)}

\* The indices heights are reported for: the first two items and one that
\* is never in range.
HeightIndices == {0, 1, MaxItems}

\* Viewport heights: an empty viewport, two default items, the initial one.
VL_Viewports == {0, Px(160), Px(InitialViewportHeightPx)}

\* Requested offsets: negative, inside the range, beyond every maximum.
VL_OffsetInputs == {Px(-100), Px(100), Px(5000)}

\* Wheel deltas, multiplied by scroll_speed (40) in scroll_by.
ScrollDeltas == {Px(-100), Px(100)}

Batches ==
    {<<>>,
     << <<0, Px(600)>> >>,
     << <<1, Px(600)>>, <<0, Px(DefaultItemHeightPx)>> >>,
     << <<MaxItems, Px(600)>>, <<1, Px(DefaultItemHeightPx)>> >>}

\* Heights reported to the height store: a negative one, one half a pixel
\* (the epsilon) above the minimum, one half a pixel above the default, one
\* above the maximum.
HS_HeightInputs ==
    {Px(-5),
     Px(MinItemHeightPx) + HeightEpsilon,
     Px(DefaultItemHeightPx) + HeightEpsilon,
     Px(600)}

\* Batches for the height store: empty, an entry out of range after one in
\* range, the same index twice, only an entry out of range.
HS_Batches ==
    {<<>>,
     << <<0, Px(600)>>, <<MaxItems, Px(-5)>> >>,
     << <<1, Px(-5)>>, <<1, Px(600)>> >>,
     << <<MaxItems, Px(600)>> >>}

\* The call that rebuilds the index between reports.
HS_OffsetInputs == {Px(100)}

\* Reported heights where a report may be NaN: NaN, one below the minimum
\* and one in range.
NaN_HeightInputs == {NaN, Px(-5), Px(100)}

\* The record of the call that produced the current state: its name, its
\* argument, the auto-follow flag it found, the count last passed to
\* VirtualList::set_item_count, and whether the call panicked.
Call(op, arg) ==
    [op           |-> op,
     arg          |-> arg,
     was_auto     |-> state.auto_scroll,
     count_passed |-> last.count_passed,
     panicked     |-> FALSE,
     rebuilt      |-> FALSE]

\* The record of a call that goes through ensure_calculated: it also keeps
\* whether the rebuild loop ran.
RebuildingCall(op, arg) ==
    [Call(op, arg) EXCEPT !.rebuilt = VL_rebuilds(virtual_list)]

\* The record of a call that panicked: it unwound before writing anything.
Panicked(op, arg) == [Call(op, arg) EXCEPT !.panicked = TRUE]

------------------------------------------------------------------------------
(***************************************************************************)
(* Calls on a VirtualList.                                                 *)
(***************************************************************************)
VL_SetItemCount(count) ==
    /\ virtual_list' = VL_set_item_count(virtual_list, count)
    /\ last' = [Call("VirtualList::set_item_count", count)
                    EXCEPT !.count_passed = count]
    /\ UNCHANGED state

VL_SetViewportHeight(height) ==
    /\ virtual_list' = VL_set_viewport_height(virtual_list, height)
    /\ last' = Call("VirtualList::set_viewport_height", <<>>)
    /\ UNCHANGED state

\* `noted` is what the call record keeps of the arguments: the arguments
\* themselves, or <<>> where no property reads them.
VL_SetItemHeight(index, height, noted) ==
    /\ IF VL_set_item_height_panics(virtual_list, index, height)
       THEN /\ virtual_list' = virtual_list
            /\ last' = Panicked("VirtualList::set_item_height", noted)
       ELSE /\ virtual_list' = VL_set_item_height(virtual_list, index, height)
            /\ last' = Call("VirtualList::set_item_height", noted)
    /\ UNCHANGED state

VL_SetItemHeights(batch, noted) ==
    /\ IF VL_set_item_heights_panics(virtual_list, batch)
       THEN /\ virtual_list' = virtual_list
            /\ last' = Panicked("VirtualList::set_item_heights", noted)
       ELSE /\ virtual_list' = VL_set_item_heights(virtual_list, batch)
            /\ last' = Call("VirtualList::set_item_heights", noted)
    /\ UNCHANGED state

VL_SetScrollOffset(offset) ==
    /\ virtual_list' = VL_set_scroll_offset(virtual_list, offset)
    /\ last' = RebuildingCall("VirtualList::set_scroll_offset", offset)
    /\ UNCHANGED state

\* The caller's round trip list.set_scroll_offset(list.item_offset(index)):
\* the argument is read first, through the immutable query.
VL_SetScrollOffsetToItemOffset(index) ==
    /\ virtual_list' = VL_set_scroll_offset(virtual_list,
                                            VL_item_offset(virtual_list, index))
    /\ last' = RebuildingCall("VirtualList::set_scroll_offset(item_offset)", index)
    /\ UNCHANGED state

VL_ScrollBy(delta) ==
    /\ virtual_list' = VL_scroll_by(virtual_list, delta)
    /\ last' = RebuildingCall("VirtualList::scroll_by", <<>>)
    /\ UNCHANGED state

VL_ScrollToBottom ==
    /\ virtual_list' = VL_scroll_to_bottom(virtual_list)
    /\ last' = RebuildingCall("VirtualList::scroll_to_bottom", <<>>)
    /\ UNCHANGED state

VL_ScrollToItem(index) ==
    /\ virtual_list' = VL_scroll_to_item(virtual_list, index)
    /\ last' = RebuildingCall("VirtualList::scroll_to_item", index)
    /\ UNCHANGED state

------------------------------------------------------------------------------
(***************************************************************************)
(* Calls on a StreamState.                                                 *)
(***************************************************************************)
Contents == {UserMessage(12), ToolCall(FALSE)}

SS_Viewports == {Px(100), Px(InitialViewportHeightPx)}

\* The ids of the items, "0", "1", ... in the tests.
Ids == 0..(MaxItems - 1)

\* The ids update and toggle_expanded are called with: the first item and
\* the last one the model can hold (absent until it is pushed).
SS_TouchedIds == {0, MaxItems - 1}

\* Scroll deltas in pixels (StreamState::scroll_by applies no multiplier).
SS_ScrollDeltas == {Px(-1000), Px(1000)}

\* The maximum scroll offset of the items as they are now.
RECURSIVE SumHeights(_)
SumHeights(items) ==
    IF items = <<>> THEN 0 ELSE estimated_height(Head(items)) + SumHeights(Tail(items))

SS_MaxScroll(s) ==
    IF SumHeights(s.items) > s.viewport_height
    THEN SumHeights(s.items) - s.viewport_height
    ELSE 0

\* Requested offsets: negative, the top, just outside and just inside the
\* auto-follow tolerance, the maximum, and beyond it.
SS_OffsetInputs(s) ==
    {Px(-100),
     SS_MaxScroll(s) - Px(AutoScrollTolerancePx) - 1,
     SS_MaxScroll(s) - Px(AutoScrollTolerancePx),
     SS_MaxScroll(s),
     Px(5000)}

SS_Push(id, content) ==
    /\ Len(state.items) < MaxItems
    /\ state' = SS_push(state, StreamItem_new(id, content))
    /\ last' = Call("StreamState::push", <<>>)
    /\ UNCHANGED virtual_list

SS_Update(id, content) ==
    /\ state' = SS_update(state, id, content)
    /\ last' = Call("StreamState::update", <<>>)
    /\ UNCHANGED virtual_list

SS_ToggleExpanded(id) ==
    /\ state' = SS_toggle_expanded(state, id)
    /\ last' = Call("StreamState::toggle_expanded", <<>>)
    /\ UNCHANGED virtual_list

SS_Clear ==
    /\ state' = SS_clear(state)
    /\ last' = Call("StreamState::clear", Len(state.items))
    /\ UNCHANGED virtual_list

SS_SetViewportHeight(height) ==
    /\ state' = SS_set_viewport_height(state, height)
    /\ last' = Call("StreamState::set_viewport_height", <<>>)
    /\ UNCHANGED virtual_list

SS_SetScrollOffset(offset) ==
    /\ state' = SS_set_scroll_offset(state, offset)
    /\ last' = Call("StreamState::set_scroll_offset", offset)
    /\ UNCHANGED virtual_list

SS_ScrollBy(delta) ==
    /\ state' = SS_scroll_by(state, delta)
    /\ last' = Call("StreamState::scroll_by", <<>>)
    /\ UNCHANGED virtual_list

SS_ScrollToBottom ==
    /\ state' = SS_scroll_to_bottom(state)
    /\ last' = Call("StreamState::scroll_to_bottom", <<>>)
    /\ UNCHANGED virtual_list

SS_EnableAutoScroll ==
    /\ state' = SS_enable_auto_scroll(state)
    /\ last' = Call("StreamState::enable_auto_scroll", <<>>)
    /\ UNCHANGED virtual_list

\* The ids items are pushed with where the order of ids matters: two
\* digits, as in test_selection, and a word.
ItemIds == {"1", "2", "alpha"}

\* The ids asked for and selected: those, and one that is never pushed.
AskedIds == ItemIds \cup {"absent"}

\* The ids whose expansion is toggled: one that is pushed, one that is not.
ToggledIds == {"1", "absent"}

\* The runs of two items pushed by one extend, with ids not yet present.
Extensions(s) ==
    LET free == ItemIds \ DOMAIN s.item_index
    IN  {<<StreamItem_new(p[1], UserMessage(12)),
           StreamItem_new(p[2], ToolCall(FALSE))>> :
             p \in {q \in free \X free : q[1] # q[2]}}

SS_Extend(items) ==
    /\ Len(state.items) + Len(items) <= MaxItems
    /\ state' = SS_extend(state, items)
    /\ last' = Call("StreamState::extend", <<>>)
    /\ UNCHANGED virtual_list

SS_Select(id) ==
    /\ state' = SS_select(state, id)
    /\ last' = Call("StreamState::select", <<>>)
    /\ UNCHANGED virtual_list

SS_SelectNext ==
    /\ state' = SS_select_next(state)
    /\ last' = Call("StreamState::select_next", <<>>)
    /\ UNCHANGED virtual_list

SS_SelectPrevious ==
    /\ state' = SS_select_previous(state)
    /\ last' = Call("StreamState::select_previous", <<>>)
    /\ UNCHANGED virtual_list

------------------------------------------------------------------------------
(***************************************************************************)
(* Calls on a StreamTimeline.                                              *)
(***************************************************************************)
\* Wheel deltas for the timeline: one line up, far down.
TL_ScrollDeltas == {Px(-1), Px(100)}

\* The timeline the two variables make up.
Timeline ==
    [state |-> state, virtual_list |-> virtual_list,
     config |-> StreamTimelineConfig]

TL_Push(id, content) ==
    /\ Len(state.items) < MaxItems
    /\ LET t == TL_push(Timeline, StreamItem_new(id, content))
       IN  /\ state' = t.state
           /\ virtual_list' = t.virtual_list
    /\ last' = Call("StreamTimeline::push", <<>>)

TL_SetViewportHeight(height) ==
    /\ LET t == TL_set_viewport_height(Timeline, height)
       IN  /\ state' = t.state
           /\ virtual_list' = t.virtual_list
    /\ last' = Call("StreamTimeline::set_viewport_height", height)

TL_ScrollBy(delta) ==
    /\ LET t == TL_scroll_by(Timeline, delta)
       IN  /\ state' = t.state
           /\ virtual_list' = t.virtual_list
    /\ last' = RebuildingCall("StreamTimeline::scroll_by", <<>>)

TL_ScrollToBottom ==
    /\ LET t == TL_scroll_to_bottom(Timeline)
       IN  /\ state' = t.state
           /\ virtual_list' = t.virtual_list
    /\ last' = RebuildingCall("StreamTimeline::scroll_to_bottom", <<>>)

TL_Clear ==
    /\ LET t == TL_clear(Timeline)
       IN  /\ state' = t.state
           /\ virtual_list' = t.virtual_list
    /\ last' = Call("StreamTimeline::clear", <<>>)

------------------------------------------------------------------------------
(***************************************************************************)
(* Specifications.                                                         *)
(***************************************************************************)
Init ==
    /\ virtual_list \in {VL_new(VirtualListConfig(k)) : k \in Overscans}
    /\ state = SS_new
    /\ last = [op |-> "new", arg |-> <<>>, was_auto |-> TRUE,
               count_passed |-> 0, panicked |-> FALSE,
               rebuilt |-> FALSE]

NextVL ==
    \/ \E count \in 0..MaxItems : VL_SetItemCount(count)
    \/ \E height \in VL_Viewports : VL_SetViewportHeight(height)
    \/ \E index \in HeightIndices, height \in HeightInputs :
           VL_SetItemHeight(index, height, <<>>)
    \/ \E batch \in Batches : VL_SetItemHeights(batch, <<>>)
    \/ \E offset \in VL_OffsetInputs : VL_SetScrollOffset(offset)
    \/ \E index \in 0..MaxItems : VL_SetScrollOffsetToItemOffset(index)
    \/ \E delta \in ScrollDeltas : VL_ScrollBy(delta)
    \/ VL_ScrollToBottom
    \/ \E index \in 0..MaxItems : VL_ScrollToItem(index)

SpecVL == Init /\ [][NextVL]_vars

\* Items are pushed with the id of their position, as the tests do.
NextSS ==
    \/ \E content \in Contents : SS_Push(Len(state.items), content)
    \/ \E id \in SS_TouchedIds, content \in Contents : SS_Update(id, content)
    \/ \E id \in SS_TouchedIds : SS_ToggleExpanded(id)
    \/ SS_Clear
    \/ \E height \in SS_Viewports : SS_SetViewportHeight(height)
    \/ \E offset \in SS_OffsetInputs(state) : SS_SetScrollOffset(offset)
    \/ \E delta \in SS_ScrollDeltas : SS_ScrollBy(delta)
    \/ SS_ScrollToBottom
    \/ SS_EnableAutoScroll

SpecSS == Init /\ [][NextSS]_vars

\* The height store: a list under the default configuration or the one of
\* test_visible_range, driven by the calls that write heights and by a call
\* that rebuilds the index; the call record keeps the arguments.
InitHS ==
    /\ virtual_list \in {VL_new(VirtualListConfig(DefaultOverscan)),
                         VL_new(TestConfig)}
    /\ state = SS_new
    /\ last = [op |-> "new", arg |-> <<>>, was_auto |-> TRUE,
               count_passed |-> 0, panicked |-> FALSE,
               rebuilt |-> FALSE]

NextHS ==
    \/ \E count \in 0..MaxItems : VL_SetItemCount(count)
    \/ \E index \in HeightIndices, height \in HS_HeightInputs :
           VL_SetItemHeight(index, height, <<index, height>>)
    \/ \E batch \in HS_Batches : VL_SetItemHeights(batch, batch)
    \/ \E offset \in HS_OffsetInputs : VL_SetScrollOffset(offset)

SpecHS == InitHS /\ [][NextHS]_vars

\* The height store where a reported height may be NaN.
NextNaN ==
    \/ \E count \in 0..MaxItems : VL_SetItemCount(count)
    \/ \E index \in HeightIndices, height \in NaN_HeightInputs :
           VL_SetItemHeight(index, height, <<index, height>>)
    \/ \E index \in HeightIndices, height \in NaN_HeightInputs :
           VL_SetItemHeights(<<<<index, height>>>>, <<index, height>>)
    \/ \E offset \in HS_OffsetInputs : VL_SetScrollOffset(offset)

SpecNaN == InitHS /\ [][NextNaN]_vars

\* Every entry point of a list, under the default configuration or the
\* inverted one; a panic ends the run.
InitCfg ==
    /\ virtual_list \in {VL_new(VirtualListConfig(DefaultOverscan)),
                         VL_new(InvertedConfig)}
    /\ state = SS_new
    /\ last = [op |-> "new", arg |-> <<>>, was_auto |-> TRUE,
               count_passed |-> 0, panicked |-> FALSE,
               rebuilt |-> FALSE]

NextCfg == ~last.panicked /\ NextVL

SpecCfg == InitCfg /\ [][NextCfg]_vars

\* A timeline: its state and its list are driven together, through the
\* methods of StreamTimeline only.
InitTL ==
    /\ state = TL_new.state
    /\ virtual_list = TL_new.virtual_list
    /\ last = [op |-> "new", arg |-> <<>>, was_auto |-> TRUE,
               count_passed |-> 0, panicked |-> FALSE,
               rebuilt |-> FALSE]

NextTL ==
    \/ \E content \in Contents : TL_Push(Len(state.items), content)
    \/ \E height \in SS_Viewports : TL_SetViewportHeight(height)
    \/ \E delta \in TL_ScrollDeltas : TL_ScrollBy(delta)
    \/ TL_ScrollToBottom
    \/ TL_Clear

SpecTL == InitTL /\ [][NextTL]_vars

\* The items of a stream state, their index and the selection: items are
\* pushed with ids not yet present, in any order of ids; the viewport is
\* resized and the view scrolled to the top, which switches auto-follow off
\* in a stream longer than the viewport.
NextIdx ==
    \/ \E id \in ItemIds \ DOMAIN state.item_index :
           SS_Push(id, ToolCall(FALSE))
    \/ \E items \in Extensions(state) : SS_Extend(items)
    \/ \E id \in AskedIds : SS_Update(id, UserMessage(12))
    \/ \E id \in ToggledIds : SS_ToggleExpanded(id)
    \/ SS_Clear
    \/ \E id \in {None} \cup {Some(a) : a \in AskedIds} : SS_Select(id)
    \/ SS_SelectNext
    \/ SS_SelectPrevious
    \/ \E height \in SS_Viewports : SS_SetViewportHeight(height)
    \/ SS_SetScrollOffset(0)

SpecIdx == Init /\ [][NextIdx]_vars

------------------------------------------------------------------------------
(***************************************************************************)
(* Reference values, computed from the heights as they are now and not     *)
(* from the cumulative index.                                              *)
(***************************************************************************)
RECURSIVE PrefixSum(_, _)
PrefixSum(hs, n) == IF n = 0 THEN 0 ELSE PrefixSum(hs, n - 1) + hs[n]

TrueTotal(l) == PrefixSum(l.heights, Len(l.heights))

TrueMaxScroll(l) ==
    IF TrueTotal(l) > l.viewport_height
    THEN TrueTotal(l) - l.viewport_height
    ELSE 0

TrueItemOffset(l, index) ==
    IF index >= Len(l.heights) THEN TrueTotal(l) ELSE PrefixSum(l.heights, index)

\* The list with its index as a rebuild would leave it.
Rebuilt(l) ==
    [l EXCEPT !.cumulative_heights = [k \in 1..Len(l.heights) |-> PrefixSum(l.heights, k)],
              !.total_height = TrueTotal(l)]

InScrollBounds(l) == 0 <= l.scroll_offset /\ l.scroll_offset <= TrueMaxScroll(l)

\* The smallest 0-based index whose entry of `cum` is >= x, by a scan from the
\* front; Len(cum) when there is none.
LinearScan(cum, x) ==
    IF \E k \in 1..Len(cum) : cum[k] >= x
    THEN (CHOOSE k \in 1..Len(cum) :
             cum[k] >= x /\ \A j \in 1..(k - 1) : cum[j] < x) - 1
    ELSE Len(cum)

QueriedIndices == 0..(MaxItems + 1)

IsCall(op) == last.op = op

------------------------------------------------------------------------------
(***************************************************************************)
(* Claims about VirtualList (SpecVL).                                      *)
(***************************************************************************)

\* C1: every query (total_height, item_offset, visible_range, is_at_bottom)
\* returns, in every reachable state, the value computed from the prefix
\* sums of the heights as they are at that moment.
C1_QueriesReflectCurrentHeights ==
    /\ VL_total_height(virtual_list) = TrueTotal(virtual_list)
    /\ \A i \in QueriedIndices :
           VL_item_offset(virtual_list, i) = TrueItemOffset(virtual_list, i)
    /\ VL_visible_range(virtual_list) = VL_visible_range(Rebuilt(virtual_list))
    /\ VL_is_at_bottom(virtual_list) = VL_is_at_bottom(Rebuilt(virtual_list))

\* A call wrote scroll_offset: set_scroll_offset, scroll_by and
\* scroll_to_bottom always assign it, scroll_to_item in its two scrolling
\* branches, which always change the value.
ScrollOffsetWritten ==
    \/ last'.op \in {"VirtualList::set_scroll_offset",
                     "VirtualList::set_scroll_offset(item_offset)",
                     "VirtualList::scroll_by",
                     "VirtualList::scroll_to_bottom"}
    \/ /\ last'.op = "VirtualList::scroll_to_item"
       /\ virtual_list'.scroll_offset # virtual_list.scroll_offset

\* C2: immediately after every call that mutates scroll_offset,
\* 0 <= scroll_offset <= max(0, total_height - viewport_height) holds for
\* the current heights and viewport height.
C2_ScrollOffsetInBoundsAfterMutation ==
    [][ScrollOffsetWritten => InScrollBounds(virtual_list')]_vars

C4_ItemOffsetsArePrefixSums ==
    ~virtual_list.dirty =>
        /\ VL_total_height(virtual_list) = TrueTotal(virtual_list)
        /\ VL_item_offset(virtual_list, 0) = 0
        /\ \A i \in QueriedIndices :
               VL_item_offset(virtual_list, i) =
                   IF i < virtual_list.item_count
                   THEN PrefixSum(virtual_list.heights, i)
                   ELSE TrueTotal(virtual_list)

\* C4 witness: a rebuilt index over heights that differ.
C4_Witness ==
    /\ ~virtual_list.dirty
    /\ virtual_list.item_count = MaxItems
    /\ virtual_list.heights[1] # virtual_list.heights[2]
    /\ VL_item_offset(virtual_list, 2) =
           virtual_list.heights[1] + virtual_list.heights[2]

\* C5: with N > 0, the index rebuilt and scroll_offset within its bounds,
\* visible_range() = (start, end, start_offset) has 0 <= start < end <= N,
\* item_offset(start) <= scroll_offset, end = N or item_offset(end) >=
\* scroll_offset + viewport_height, and start_offset = item_offset(start).
C5_VisibleRangeCoversViewport ==
    (/\ virtual_list.item_count > 0
     /\ ~virtual_list.dirty
     /\ InScrollBounds(virtual_list)) =>
        LET r == VL_visible_range(virtual_list)
            N == virtual_list.item_count
        IN  /\ 0 <= r.start /\ r.start < r.end /\ r.end <= N
            /\ TrueItemOffset(virtual_list, r.start) <= virtual_list.scroll_offset
            /\ \/ r.end = N
               \/ TrueItemOffset(virtual_list, r.end) >=
                      virtual_list.scroll_offset + virtual_list.viewport_height
            /\ r.start_offset = TrueItemOffset(virtual_list, r.start)

\* C5 witness: a scrolled list whose range is cut at both ends.
C5_Witness ==
    /\ virtual_list.item_count > 0
    /\ ~virtual_list.dirty
    /\ InScrollBounds(virtual_list)
    /\ virtual_list.scroll_offset > 0
    /\ VL_visible_range(virtual_list).start > 0
    /\ VL_visible_range(virtual_list).end < virtual_list.item_count

UniformHeights(l) == \A k \in 1..Len(l.heights) : l.heights[k] = l.heights[1]

\* C6: visible_range() returns start = max(0, s - overscan) and
\* end = min(N, e + 1 + overscan), s and e being the smallest indices whose
\* cumulative height is >= scroll_offset and >= scroll_offset +
\* viewport_height (each clamped to N - 1); the binary search finds what a
\* linear scan finds; and at scroll_offset 0 with uniform height h and
\* viewport k * h, start = 0 and end >= min(N, k + overscan).
C6_VisibleRangeFormula ==
    virtual_list.item_count > 0 =>
        LET l    == virtual_list
            N    == l.item_count
            o    == l.config.overscan
            r    == VL_visible_range(l)
            top  == l.scroll_offset
            bot  == l.scroll_offset + l.viewport_height
            scan(x) == IF LinearScan(l.cumulative_heights, x) < N - 1
                       THEN LinearScan(l.cumulative_heights, x)
                       ELSE N - 1
            s    == scan(top)
            e    == scan(bot)
            h    == l.heights[1]
        IN  /\ binary_search_by(l.cumulative_heights, top) =
                   LinearScan(l.cumulative_heights, top)
            /\ binary_search_by(l.cumulative_heights, bot) =
                   LinearScan(l.cumulative_heights, bot)
            /\ r.start = (IF s - o > 0 THEN s - o ELSE 0)
            /\ r.end = (IF e + 1 + o < N THEN e + 1 + o ELSE N)
            /\ (/\ ~l.dirty
                /\ top = 0
                /\ UniformHeights(l)
                /\ l.viewport_height % h = 0) =>
                   /\ r.start = 0
                   /\ \/ r.end >= (l.viewport_height \div h) + o
                      \/ r.end >= N

\* C6 witness: two default items fill the viewport of a longer uniform
\* list at the top, and the range ends before the list does.
C6_Witness ==
    /\ virtual_list.item_count = MaxItems
    /\ ~virtual_list.dirty
    /\ virtual_list.scroll_offset = 0
    /\ UniformHeights(virtual_list)
    /\ virtual_list.viewport_height = 2 * virtual_list.heights[1]
    /\ VL_visible_range(virtual_list).start = 0
    /\ VL_visible_range(virtual_list).end = 2 + virtual_list.config.overscan
    /\ VL_visible_range(virtual_list).end < virtual_list.item_count

\* C7: for every index i < N, after set_scroll_offset(item_offset(i)) the
\* range returned by visible_range() contains i.  Stated for an offset read
\* from a rebuilt index (a read of a stale index is C1's matter).
C7_RoundTripContainsItem ==
    [][(/\ last'.op = "VirtualList::set_scroll_offset(item_offset)"
        /\ ~virtual_list.dirty
        /\ last'.arg < virtual_list.item_count) =>
           /\ VL_visible_range(virtual_list').start <= last'.arg
           /\ last'.arg < VL_visible_range(virtual_list').end]_vars

------------------------------------------------------------------------------
(***************************************************************************)
(* Claims about StreamState (SpecSS).                                      *)
(***************************************************************************)

\* C8: whenever auto-follow is ON, push(item) leaves it ON and leaves
\* scroll_offset at max(0, total_height - viewport_height), the new item
\* counted.
C8_PushFollowsWhileAuto ==
    (IsCall("StreamState::push") /\ last.was_auto) =>
        /\ state.auto_scroll
        /\ state.scroll_offset = SS_MaxScroll(state)

\* C8 witness: a push under auto-follow scrolled the view down.
C8_Witness ==
    /\ IsCall("StreamState::push")
    /\ last.was_auto
    /\ state.auto_scroll
    /\ Len(state.items) >= 2
    /\ state.scroll_offset > 0
    /\ state.scroll_offset = SS_MaxScroll(state)

\* C9: set_scroll_offset(o) stores o clamped, and switches auto-follow from
\* ON to OFF exactly when the stored offset is more than 50 below
\* max(0, total_height - viewport_height); otherwise auto-follow keeps its
\* value.
C9_SetScrollOffsetDisengages ==
    IsCall("StreamState::set_scroll_offset") =>
        LET max    == SS_MaxScroll(state)
            stored == IF last.arg < 0 THEN 0
                      ELSE IF last.arg > max THEN max ELSE last.arg
        IN  /\ state.scroll_offset = stored
            /\ state.auto_scroll =
                   (last.was_auto /\ ~(stored < max - Px(50)))

\* C9 witness: an offset half a pixel beyond the tolerance switched
\* auto-follow off.
C9_Witness ==
    /\ IsCall("StreamState::set_scroll_offset")
    /\ last.was_auto
    /\ ~state.auto_scroll
    /\ state.scroll_offset = SS_MaxScroll(state) - Px(50) - 1

\* C10: scroll_to_bottom(), in any state, sets scroll_offset to
\* max(0, total_height - viewport_height) for the current items and sets
\* auto-follow ON.
C10_ScrollToBottomEngages ==
    IsCall("StreamState::scroll_to_bottom") =>
        /\ state.scroll_offset = SS_MaxScroll(state)
        /\ state.auto_scroll

\* C10 witness: scroll_to_bottom re-engaged auto-follow on a scrollable
\* stream.
C10_Witness ==
    /\ IsCall("StreamState::scroll_to_bottom")
    /\ ~last.was_auto
    /\ state.auto_scroll
    /\ state.scroll_offset > 0
    /\ state.scroll_offset = SS_MaxScroll(state)

\* C11: once auto-follow is OFF it stays OFF across every call other than
\* scroll_to_bottom and enable_auto_scroll: no set_scroll_offset or
\* scroll_by (even one that lands exactly on the maximum offset), push,
\* update, toggle_expanded, set_viewport_height or clear switches it ON.
C11_OffStaysOff ==
    (/\ ~last.was_auto
     /\ last.op \notin {"new", "StreamState::scroll_to_bottom",
                        "StreamState::enable_auto_scroll"})
        => ~state.auto_scroll

\* C11 witness: with auto-follow OFF, set_scroll_offset landed exactly on a
\* positive maximum offset and auto-follow is still OFF.
C11_Witness ==
    /\ IsCall("StreamState::set_scroll_offset")
    /\ ~last.was_auto
    /\ SS_MaxScroll(state) > 0
    /\ last.arg = SS_MaxScroll(state)
    /\ state.scroll_offset = SS_MaxScroll(state)
    /\ ~state.auto_scroll

------------------------------------------------------------------------------
(***************************************************************************)
(* Claims about VirtualList::scroll_to_item (SpecVL).                      *)
(***************************************************************************)
\* C12: scroll_to_item(index) scrolls the item into view: with
\* item_top the sum of the heights before it and item_bottom = item_top +
\* height(index), an index >= N leaves scroll_offset unchanged; otherwise
\* item_top < scroll_offset stores item_top, else item_bottom >
\* scroll_offset + viewport_height stores item_bottom - viewport_height,
\* else scroll_offset is unchanged.
C12_ScrollToItemIntoView ==
    [][last'.op = "VirtualList::scroll_to_item" =>
         LET index       == last'.arg
             before      == virtual_list.scroll_offset
             viewport    == virtual_list.viewport_height
             item_top    == PrefixSum(virtual_list.heights, index)
             item_bottom == item_top + virtual_list.heights[index + 1]
         IN  /\ virtual_list'.heights = virtual_list.heights
             /\ virtual_list'.viewport_height = viewport
             /\ virtual_list'.scroll_offset =
                    IF index >= virtual_list.item_count
                    THEN before
                    ELSE IF item_top < before
                         THEN item_top
                         ELSE IF item_bottom > before + viewport
                              THEN item_bottom - viewport
                              ELSE before]_vars

\* C12 witness: scroll_to_item brought the bottom edge of an item that
\* lies beyond the first viewport to the bottom edge of the viewport.
C12_Witness ==
    /\ IsCall("VirtualList::scroll_to_item")
    /\ last.arg < virtual_list.item_count
    /\ virtual_list.scroll_offset > 0
    /\ virtual_list.scroll_offset =
           TrueItemOffset(virtual_list, last.arg)
               + virtual_list.heights[last.arg + 1]
               - virtual_list.viewport_height

\* C13: for every index i < N and every prior scroll position, after
\* scroll_to_item(i) the range returned by visible_range() contains i.
C13_ScrollToItemMakesVisible ==
    (/\ IsCall("VirtualList::scroll_to_item")
     /\ last.arg < virtual_list.item_count)
        => LET r == VL_visible_range(virtual_list)
           IN  r.start <= last.arg /\ last.arg < r.end

\* C15: whenever N = 0 (a list never populated, or shrunk to zero by
\* set_item_count(0)), visible_range() returns (0, 0, 0), total_height()
\* returns 0 and item_offset(i) returns 0 for every i.
C15_EmptyListAnswersZero ==
    virtual_list.item_count = 0 =>
        /\ VL_visible_range(virtual_list) =
               [start |-> 0, end |-> 0, start_offset |-> 0]
        /\ VL_total_height(virtual_list) = 0
        /\ \A i \in QueriedIndices : VL_item_offset(virtual_list, i) = 0

\* C17: every VirtualList entry point completes without panicking, for
\* every index, every height, offset and viewport value and every
\* configuration, including one with min_item_height > max_item_height,
\* in every reachable state.
C17_NoEntryPointPanics == ~last.panicked

\* C22: in every reachable state where the dirty flag is false the
\* cumulative index is exact: it has length N, entry i is the sum of
\* heights[0..=i], total_height equals its last entry (0 when N = 0), and it
\* is non-decreasing, strictly increasing where the heights are positive.
C22_CleanIndexIsExact ==
    ~virtual_list.dirty =>
        LET cum == virtual_list.cumulative_heights
            N   == virtual_list.item_count
        IN  /\ Len(cum) = N
            /\ \A i \in 1..N : cum[i] = PrefixSum(virtual_list.heights, i)
            /\ virtual_list.total_height = IF N = 0 THEN 0 ELSE cum[N]
            /\ \A i \in 1..N : \A j \in (i + 1)..N :
                   /\ cum[i] <= cum[j]
                   /\ virtual_list.heights[j] > 0 => cum[i] < cum[j]

\* C22 witness: a clean index over a full list whose first item stands at
\* the maximum height and whose others do not.
C22_Witness ==
    /\ ~virtual_list.dirty
    /\ virtual_list.item_count = MaxItems
    /\ virtual_list.heights[1] = Px(MaxItemHeightPx)
    /\ virtual_list.heights[MaxItems] = Px(DefaultItemHeightPx)
    /\ virtual_list.total_height = TrueTotal(virtual_list)

\* The calls that write heights, and the calls that trigger a rebuild.
HeightMutations ==
    {"VirtualList::set_item_count", "VirtualList::set_item_height",
     "VirtualList::set_item_heights"}

RebuildTriggers ==
    {"VirtualList::set_scroll_offset",
     "VirtualList::set_scroll_offset(item_offset)",
     "VirtualList::scroll_by", "VirtualList::scroll_to_bottom",
     "VirtualList::scroll_to_item"}

\* C23: the rebuild is lazy and batched: set_item_count, set_item_height
\* and set_item_heights never modify the cumulative index, total_height or
\* scroll_offset and rebuild nothing; a rebuild-triggering call
\* (set_scroll_offset, scroll_by, scroll_to_bottom, scroll_to_item) runs
\* the rebuild exactly when a mutation has dirtied the index since the last
\* one, once, and leaves the index clean, so that a further such call with
\* no mutation in between runs none.
C23_RebuildIsLazy ==
    [][LET mutation ==
               last'.op \in HeightMutations
                   => /\ virtual_list'.cumulative_heights =
                             virtual_list.cumulative_heights
                      /\ virtual_list'.total_height = virtual_list.total_height
                      /\ virtual_list'.scroll_offset = virtual_list.scroll_offset
                      /\ ~last'.rebuilt
           trigger ==
               last'.op \in RebuildTriggers
                   => /\ last'.rebuilt <=> virtual_list.dirty
                      /\ ~virtual_list'.dirty
                      /\ ~last'.rebuilt
                             => /\ virtual_list'.cumulative_heights =
                                       virtual_list.cumulative_heights
                                /\ virtual_list'.total_height =
                                       virtual_list.total_height
           again ==
               (last.op \in RebuildTriggers /\ last'.op \in RebuildTriggers)
                   => ~last'.rebuilt
       IN  mutation /\ trigger /\ again]_vars

\* C23 witness: several height mutations (a count and a report above the
\* maximum) were followed by a scroll_to_item that ran the one rebuild.
C23_Witness ==
    /\ IsCall("VirtualList::scroll_to_item")
    /\ last.rebuilt
    /\ virtual_list.item_count = MaxItems
    /\ virtual_list.heights[2] = Px(MaxItemHeightPx)
    /\ virtual_list.cumulative_heights[MaxItems] = TrueTotal(virtual_list)

\* What the queries of a list answer.
Answers(l) ==
    [visible_range |-> VL_visible_range(l),
     item_offset   |-> [i \in QueriedIndices |-> VL_item_offset(l, i)],
     total_height  |-> VL_total_height(l),
     is_at_bottom  |-> VL_is_at_bottom(l),
     is_at_top     |-> VL_is_at_top(l)]

\* C24: a rebuild performed while the dirty flag is clear changes nothing;
\* rebuilding twice yields the same cumulative index and total_height as
\* rebuilding once; and a query (visible_range, item_offset, total_height,
\* is_at_bottom, is_at_top) changes no state, so that calling it twice with
\* no mutation in between returns the same result.
C24_RebuildIsIdempotent ==
    LET once    == VL_ensure_calculated(virtual_list)
        twice   == VL_ensure_calculated(once)
        queried == VL_ensure_calculated_immut(virtual_list)
    IN  /\ ~virtual_list.dirty => once = virtual_list
        /\ twice.cumulative_heights = once.cumulative_heights
        /\ twice.total_height = once.total_height
        /\ twice = once
        /\ queried = virtual_list
        /\ Answers(queried) = Answers(virtual_list)

\* C24 witness: a rebuild-triggering call reached a populated list whose
\* index was clean, ran no rebuild and left the index as it was.
C24_Witness ==
    /\ last.op \in RebuildTriggers
    /\ ~last.rebuilt
    /\ ~virtual_list.dirty
    /\ virtual_list.item_count > 1
    /\ Len(virtual_list.cumulative_heights) = virtual_list.item_count

------------------------------------------------------------------------------
(***************************************************************************)
(* Claims about the height store of VirtualList (SpecHS).                  *)
(***************************************************************************)
\* C14: after any sequence of set_item_count / set_item_height /
\* set_item_heights calls, Len(heights) = item_count = the value last
\* passed to set_item_count (0 if it was never called).
C14_CountInvariant ==
    /\ Len(virtual_list.heights) = virtual_list.item_count
    /\ virtual_list.item_count = last.count_passed

\* C14 witness: a list shrunk to one item whose height had been reported
\* above the maximum.
C14_Witness ==
    /\ IsCall("VirtualList::set_item_count")
    /\ last.arg = 1
    /\ virtual_list.heights = << Px(MaxItemHeightPx) >>
    /\ virtual_list.item_count = 1

\* The entries of a batch whose index is in range.
InRange(batch) ==
    SelectSeq(batch, LAMBDA e : e[1] < virtual_list.item_count)

\* C16: set_item_height(index, h) with index >= N, and every entry of a
\* set_item_heights batch with index >= N, is silently ignored: heights,
\* item_count, dirty, the cumulative index and scroll_offset are unchanged
\* and no error is raised.
C16_OutOfRangeIgnored ==
    [][LET single ==
               (/\ last'.op = "VirtualList::set_item_height"
                /\ last'.arg[1] >= virtual_list.item_count)
                   => /\ virtual_list' = virtual_list
                      /\ ~last'.panicked
           batched ==
               last'.op = "VirtualList::set_item_heights"
                   => /\ virtual_list' =
                             VL_set_item_heights(virtual_list,
                                                 InRange(last'.arg))
                      /\ (InRange(last'.arg) = <<>>
                             => virtual_list' = virtual_list)
                      /\ ~last'.panicked
       IN  single /\ batched]_vars

\* C16 witness: a report for an index out of range reached a populated
\* list with a clean index and a scrolled view, and left the index clean.
C16_Witness ==
    /\ IsCall("VirtualList::set_item_height")
    /\ virtual_list.item_count > 0
    /\ last.arg[1] >= virtual_list.item_count
    /\ virtual_list.scroll_offset > 0
    /\ ~virtual_list.dirty

\* Every stored height lies in [min_item_height, max_item_height].
StoredHeightsInRange ==
    \A k \in 1..Len(virtual_list.heights) :
        /\ virtual_list.config.min_item_height <= virtual_list.heights[k]
        /\ virtual_list.heights[k] <= virtual_list.config.max_item_height

\* The last call was set_item_height for an index in range.
ReportedInRange ==
    /\ IsCall("VirtualList::set_item_height")
    /\ last.arg[1] < virtual_list.item_count

C19_SetItemCountResizes ==
    [][last'.op = "VirtualList::set_item_count" =>
         LET n       == last'.arg
             N       == virtual_list.item_count
             default == virtual_list.config.default_item_height
         IN  IF n = N
             THEN virtual_list' = virtual_list
             ELSE virtual_list' =
                      [virtual_list EXCEPT
                           !.item_count = n,
                           !.heights =
                               [k \in 1..n |->
                                    IF k <= N
                                    THEN virtual_list.heights[k]
                                    ELSE default],
                           !.dirty = TRUE]]_vars

\* C19 witness: the second slot holds the default again although the index
\* was built while it held another height (it was dropped and re-created),
\* and the first slot kept its reported height.
C19_Witness ==
    /\ IsCall("VirtualList::set_item_count")
    /\ last.arg = 2
    /\ virtual_list.item_count = 2
    /\ virtual_list.heights[1] = virtual_list.config.max_item_height
    /\ virtual_list.heights[2] = virtual_list.config.default_item_height
    /\ Len(virtual_list.cumulative_heights) >= 2
    /\ virtual_list.cumulative_heights[2] - virtual_list.cumulative_heights[1]
           # virtual_list.config.default_item_height
    /\ virtual_list.dirty

\* C20: set_item_height(index, h) with index < N changes state only when
\* h clamped to [min_item_height, max_item_height] differs from the stored
\* height by more than the epsilon; it then stores the clamped value and
\* sets dirty. Otherwise heights and dirty are unchanged, so repeating the
\* same call never dirties a clean index again.
C20_SetItemHeightEpsilon ==
    [][(/\ last'.op = "VirtualList::set_item_height"
        /\ last'.arg[1] < virtual_list.item_count) =>
         LET index   == last'.arg[1]
             h       == last'.arg[2]
             lo      == virtual_list.config.min_item_height
             hi      == virtual_list.config.max_item_height
             clamped == IF h < lo THEN lo ELSE IF h > hi THEN hi ELSE h
             stored  == virtual_list.heights[index + 1]
             differs == \/ stored - clamped > HeightEpsilon
                        \/ clamped - stored > HeightEpsilon
         IN  /\ IF differs
                THEN virtual_list' =
                         [virtual_list EXCEPT !.heights[index + 1] = clamped,
                                              !.dirty = TRUE]
                ELSE virtual_list' = virtual_list
             /\ VL_set_item_height(virtual_list', index, h) = virtual_list']_vars

\* C20 witness: a report half a pixel above the stored default reached a
\* clean index and left it clean, the stored height unchanged.
C20_Witness ==
    /\ ReportedInRange
    /\ last.arg[2] = Px(DefaultItemHeightPx) + HeightEpsilon
    /\ virtual_list.heights[last.arg[1] + 1] = Px(DefaultItemHeightPx)
    /\ ~virtual_list.dirty

\* set_item_height called for each entry of the batch, in order.
RECURSIVE OneByOne(_, _)
OneByOne(l, batch) ==
    IF batch = <<>>
    THEN l
    ELSE OneByOne(VL_set_item_height(l, Head(batch)[1], Head(batch)[2]),
                  Tail(batch))

\* C21: set_item_heights(batch) leaves the list in exactly the state
\* reached by calling set_item_height(index, height) for each entry of the
\* batch in order (same heights, same dirty flag), batches with out-of-range
\* and repeated indices included.
C21_BatchEqualsOneByOne ==
    [][last'.op = "VirtualList::set_item_heights" =>
           virtual_list' = OneByOne(virtual_list, last'.arg)]_vars

\* C21 witness: a batch that names the second item twice, first below the
\* minimum and then above the maximum, left it at the maximum.
C21_Witness ==
    /\ IsCall("VirtualList::set_item_heights")
    /\ Len(last.arg) = 2
    /\ last.arg[1][1] = last.arg[2][1]
    /\ last.arg[1][1] < virtual_list.item_count
    /\ virtual_list.heights[last.arg[1][1] + 1] =
           virtual_list.config.max_item_height
    /\ virtual_list.dirty

------------------------------------------------------------------------------
(***************************************************************************)
(* Claims about the viewport and the bottom of the list.                   *)
(***************************************************************************)
\* C25: set_viewport_height(h) stores h and changes nothing else, in the
\* list and in the stream state alike: scroll_offset, heights, the dirty
\* flag, the cumulative index and auto-follow are unchanged, even when the
\* stored scroll_offset now exceeds the new maximum; the offset is clamped
\* again by the next scroll_by or scroll_to_bottom.
C25_SetViewportHeightOnlyStores ==
    [][LET resize ==
               last'.op = "StreamTimeline::set_viewport_height"
                   => /\ virtual_list' =
                             [virtual_list EXCEPT !.viewport_height = last'.arg]
                      /\ state' = [state EXCEPT !.viewport_height = last'.arg]
           scroll ==
               last'.op \in {"StreamTimeline::scroll_by",
                             "StreamTimeline::scroll_to_bottom"}
                   => /\ virtual_list'.scroll_offset >= 0
                      /\ virtual_list'.scroll_offset <=
                             TrueMaxScroll(virtual_list')
                      /\ state'.scroll_offset >= 0
                      /\ state'.scroll_offset <= SS_MaxScroll(state')
       IN  resize /\ scroll]_vars

\* C25 witness: after a resize the offsets of the list and of the stream
\* state both lie beyond their new maximum.
C25_Witness ==
    /\ IsCall("StreamTimeline::set_viewport_height")
    /\ virtual_list.viewport_height = last.arg
    /\ state.viewport_height = last.arg
    /\ virtual_list.scroll_offset > TrueMaxScroll(virtual_list)
    /\ state.scroll_offset > SS_MaxScroll(state)

\* C26: in any list state, is_at_bottom() returns true immediately after
\* scroll_to_bottom(); and with content taller than the viewport by more
\* than the tolerance and scroll_offset = 0, is_at_bottom() returns false.
C26_AtBottomAfterScrollToBottom ==
    /\ IsCall("VirtualList::scroll_to_bottom") => VL_is_at_bottom(virtual_list)
    /\ (/\ TrueTotal(virtual_list) - virtual_list.viewport_height >
               Px(AtBottomTolerancePx)
        /\ virtual_list.scroll_offset = 0)
           => ~VL_is_at_bottom(virtual_list)

\* C27: is_at_bottom() is true exactly when scroll_offset >=
\* max(0, total_height - viewport_height) - tolerance, the tolerance being
\* the one (50) by which StreamState::set_scroll_offset decides to switch
\* auto-follow off.
C27_AtBottomUsesAutoFollowTolerance ==
    VL_is_at_bottom(virtual_list) <=>
        virtual_list.scroll_offset >=
            f32_max(VL_total_height(virtual_list)
                        - virtual_list.viewport_height, 0)
                - Px(AutoScrollTolerancePx)

------------------------------------------------------------------------------
(***************************************************************************)
(* Claims about the items, the index and the selection of StreamState.     *)
(***************************************************************************)
\* The positions (from 1) at which an id occurs in the item sequence.
PositionsOf(items, id) == {k \in 1..Len(items) : items[k].id = id}

\* The selection is an item of the stream.
SelectionPresent(s) ==
    s.selected_id # None /\ PositionsOf(s.items, s.selected_id[1]) # {}

\* C28: with item k selected, select_next() selects item k+1, or leaves
\* the selection unchanged if k is the last item; select_previous() selects
\* item k-1, or leaves it unchanged if k is the first; with nothing
\* selected, select_next() selects the first item and select_previous() the
\* last; with no items and nothing selected both leave the selection empty.
C28_SelectionRespectsBoundaries ==
    [][LET items == state.items
           n     == Len(items)
           k     == CHOOSE p \in PositionsOf(items, state.selected_id[1]) : TRUE
           next  ==
               last'.op = "StreamState::select_next"
                   => /\ state.selected_id = None
                             => state'.selected_id =
                                    IF n = 0 THEN None ELSE Some(items[1].id)
                      /\ SelectionPresent(state)
                             => state'.selected_id =
                                    IF k < n
                                    THEN Some(items[k + 1].id)
                                    ELSE state.selected_id
           previous ==
               last'.op = "StreamState::select_previous"
                   => /\ state.selected_id = None
                             => state'.selected_id =
                                    IF n = 0 THEN None ELSE Some(items[n].id)
                      /\ SelectionPresent(state)
                             => state'.selected_id =
                                    IF k > 1
                                    THEN Some(items[k - 1].id)
                                    ELSE state.selected_id
           frame ==
               last'.op \in {"StreamState::select_next",
                             "StreamState::select_previous"}
                   => state' = [state EXCEPT !.selected_id = state'.selected_id]
       IN  next /\ previous /\ frame]_vars

\* C28 witness: select_previous left the selection on the last of three
\* items pushed out of the order of their ids.
C28_Witness ==
    /\ IsCall("StreamState::select_previous")
    /\ Len(state.items) = 3
    /\ state.items[1].id = "alpha"
    /\ state.selected_id = Some(state.items[3].id)

\* C29: after any sequence of push / extend / update / toggle_expanded /
\* clear with unique item ids, the id map is consistent with the item
\* sequence: it has exactly one entry per present item, the entry for the
\* item at position p is p, every mapped position is < len(), get(id)
\* returns the item with that id, and get of an absent id returns none.
C29_IdMapConsistent ==
    LET items == state.items
        index == state.item_index
    IN  /\ DOMAIN index = {items[k].id : k \in 1..Len(items)}
        /\ Cardinality(DOMAIN index) = Len(items)
        /\ \A k \in 1..Len(items) : index[items[k].id] = k - 1
        /\ \A id \in DOMAIN index : index[id] < SS_len(state)
        /\ \A id \in AskedIds :
               IF PositionsOf(items, id) = {}
               THEN SS_get(state, id) = None
               ELSE /\ SS_get(state, id) # None
                    /\ SS_get(state, id)[1].id = id
                    /\ SS_get(state, id)[1] \in
                           {items[k] : k \in PositionsOf(items, id)}

\* C29 witness: an extend completed a stream of three items, and get finds
\* the last of them under its id.
C29_Witness ==
    /\ IsCall("StreamState::extend")
    /\ Len(state.items) = 3
    /\ state.items[3].id = "alpha"
    /\ SS_get(state, "alpha") = Some(state.items[3])
    /\ SS_get(state, "absent") = None

\* C30: clear(), called in any state, leaves no items, no id-map entries
\* and no selection, scroll_offset = 0, total_height = 0, an empty height
\* cache and a clear dirty flag; items pushed afterwards are indexed from
\* position 0.
C30_ClearResets ==
    [][LET cleared ==
               last'.op = "StreamState::clear"
                   => /\ state'.items = <<>>
                      /\ DOMAIN state'.item_index = {}
                      /\ state'.selected_id = None
                      /\ state'.scroll_offset = 0
                      /\ state'.total_height = 0
                      /\ state'.height_cache = <<>>
                      /\ ~state'.height_dirty
                      /\ SS_len(state') = 0
           pushed ==
               (last.op = "StreamState::clear" /\ last'.op = "StreamState::push")
                   => /\ Len(state'.items) = 1
                      /\ DOMAIN state'.item_index = {state'.items[1].id}
                      /\ state'.item_index[state'.items[1].id] = 0
       IN  cleared /\ pushed]_vars

\* C30 witness: clear emptied a stream of three items in the small
\* viewport, where the stream had been scrolled.
C30_Witness ==
    /\ IsCall("StreamState::clear")
    /\ last.arg = 3
    /\ state.viewport_height = Px(100)
    /\ state.items = <<>>
    /\ state.scroll_offset = 0

\* C31: StreamState never holds a dangling selection: after any sequence
\* of push, select, select_next, select_previous and clear, the selected id
\* is either absent or the id of an item currently present in the
\* collection.
C31_NoDanglingSelection ==
    state.selected_id = None \/ SelectionPresent(state)

------------------------------------------------------------------------------
(***************************************************************************)
(* Claims about NaN reported as a height.                                  *)
(***************************************************************************)
\* No NaN in the height sequence, the cumulative sums or the total.
NoNaNStored(l) ==
    /\ \A k \in 1..Len(l.heights) : ~f32_is_nan(l.heights[k])
    /\ \A k \in 1..Len(l.cumulative_heights) :
           ~f32_is_nan(l.cumulative_heights[k])
    /\ ~f32_is_nan(l.total_height)

\* C32: set_item_height(index, NaN) with index < N stores min_item_height
\* at that index (NaN is treated as below the minimum), so no NaN ever
\* enters the height sequence or the cumulative sums.
C32_NaNStoredAsMinimum ==
    /\ NoNaNStored(virtual_list)
    /\ (/\ IsCall("VirtualList::set_item_height")
        /\ f32_is_nan(last.arg[2])
        /\ last.arg[1] < virtual_list.item_count)
           => virtual_list.heights[last.arg[1] + 1] =
                  virtual_list.config.min_item_height

------------------------------------------------------------------------------
(***************************************************************************)
(* Claims about StreamTimeline.                                            *)
(***************************************************************************)
\* C33: StreamTimeline::push(item) records the item's height estimate in
\* the virtual list: after the call, get_item_height(p) for the new item's
\* position p equals item.estimated_height() clamped to
\* [min_item_height, max_item_height].
C33_PushRecordsEstimate ==
    IsCall("StreamTimeline::push")
        => LET p    == SS_len(state) - 1
               item == state.items[p + 1]
           IN  VL_get_item_height(virtual_list, p) =
                   f32_clamp(estimated_height(item),
                             virtual_list.config.min_item_height,
                             virtual_list.config.max_item_height)

------------------------------------------------------------------------------
(***************************************************************************)
(* Claims about the queries and the frame of StreamState.                  *)
(***************************************************************************)
\* The offset of item `index` computed from the items as they are now.
SS_TrueItemOffset(s, index) ==
    SumHeights(SubSeq(s.items, 1, usize_min(index, Len(s.items))))

\* C34: after push(item), update(id, content) or toggle_expanded(id) while
\* auto-follow is OFF, the queries total_height(), item_offset(i) and
\* visible_range() account for the change before any scroll call is made.
C34_QueriesAccountForChange ==
    (/\ last.op \in {"StreamState::push", "StreamState::update",
                     "StreamState::toggle_expanded"}
     /\ ~last.was_auto)
        => LET rebuilt == SS_recalculate_heights_if_dirty(state)
           IN  /\ SS_total_height(state) = SumHeights(state.items)
               /\ \A i \in 0..MaxItems :
                      SS_item_offset(state, i) = SS_TrueItemOffset(state, i)
               /\ SS_visible_range(state) = SS_visible_range(rebuilt)

\* C35: after StreamTimeline::clear(), called in any state, both embedded
\* structures are at the top of an empty collection: state.scroll_offset()
\* = 0 and virtual_list.scroll_offset() = 0, so the virtual list satisfies
\* 0 <= scroll_offset <= max(0, total_height - viewport_height) with N = 0.
C35_ClearReturnsToTop ==
    IsCall("StreamTimeline::clear")
        => /\ state.items = <<>>
           /\ virtual_list.item_count = 0
           /\ state.scroll_offset = 0
           /\ virtual_list.scroll_offset = 0
           /\ InScrollBounds(virtual_list)

\* C36: the two virtualization structures embedded in StreamTimeline stay
\* in agreement: after any sequence of StreamTimeline::push, scroll_by,
\* scroll_to_bottom, set_viewport_height and clear, state.scroll_offset()
\* equals virtual_list.scroll_offset().
C36_OffsetsAgree ==
    state.scroll_offset = virtual_list.scroll_offset

------------------------------------------------------------------------------
(***************************************************************************)
(* Claims about repeated calls of VirtualList::scroll_to_item.             *)
(***************************************************************************)
\* scroll_to_item(index) called a second time leaves scroll_offset where
\* the first call left it.
ScrollToItemTwice(l, index) ==
    LET once  == VL_scroll_to_item(l, index)
        twice == VL_scroll_to_item(once, index)
    IN  twice.scroll_offset = once.scroll_offset

\* C37 as stated: scroll_to_item is idempotent for every index i, every
\* item height in [min_item_height, max_item_height] (including items
\* taller than the viewport) and every prior scroll position.
C37_ScrollToItemIdempotent ==
    \A index \in 0..MaxItems : ScrollToItemTwice(virtual_list, index)

\* C37: scroll_to_item is idempotent for every index i whose item is no
\* taller than the viewport (and for every i >= N), from every prior
\* scroll position; for an item taller than the viewport the second call
\* moves scroll_offset to the other edge of the item.
C37_ScrollToItemIdempotentWhenItemFits ==
    \A index \in 0..MaxItems :
        LET once  == VL_scroll_to_item(virtual_list, index)
            twice == VL_scroll_to_item(once, index)
            fits  == \/ index >= virtual_list.item_count
                     \/ virtual_list.heights[index + 1]
                            <= virtual_list.viewport_height
        IN  /\ fits => twice.scroll_offset = once.scroll_offset
            /\ ~fits =>
                   /\ twice.scroll_offset # once.scroll_offset
                   /\ {once.scroll_offset, twice.scroll_offset} =
                          {TrueItemOffset(virtual_list, index),
                           TrueItemOffset(virtual_list, index)
                               + virtual_list.heights[index + 1]
                               - virtual_list.viewport_height}

\* C37 witness: scroll_to_item scrolled down to an item that fits the
\* viewport, and a second call leaves the offset there.
C37_Witness ==
    /\ IsCall("VirtualList::scroll_to_item")
    /\ last.arg < virtual_list.item_count
    /\ virtual_list.heights[last.arg + 1] <= virtual_list.viewport_height
    /\ virtual_list.heights[last.arg + 1] = Px(MaxItemHeightPx)
    /\ virtual_list.scroll_offset > 0
    /\ virtual_list.scroll_offset =
           TrueItemOffset(virtual_list, last.arg)
               + virtual_list.heights[last.arg + 1]
               - virtual_list.viewport_height
    /\ VL_scroll_to_item(virtual_list, last.arg).scroll_offset =
           virtual_list.scroll_offset

------------------------------------------------------------------------------
(***************************************************************************)
(* Claims that compare StreamState with VirtualList.                       *)
(***************************************************************************)
\* A VirtualList with overscan 2 holding the cumulative heights, the scroll
\* offset and the viewport height of a stream state.
ListOfState(s) ==
    [VL_new(VirtualListConfig(2)) EXCEPT
         !.item_count         = Len(s.items),
         !.cumulative_heights = s.height_cache,
         !.total_height       = s.total_height,
         !.scroll_offset      = s.scroll_offset,
         !.viewport_height    = s.viewport_height]

\* C38: StreamState::visible_range() follows the range formula with
\* overscan 2: it returns the same (start, end) that
\* VirtualList::visible_range() returns for the same cumulative heights,
\* scroll offset and viewport height when configured with overscan = 2;
\* and at scroll_offset 0 it returns start = 0 with 0 < end <= len().
C38_VisibleRangeMatchesList ==
    LET range == SS_visible_range(state)
        list  == VL_visible_range(ListOfState(state))
    IN  /\ range = <<list.start, list.end>>
        /\ (state.scroll_offset = 0 /\ state.items # <<>>)
               => /\ range[1] = 0
                  /\ 0 < range[2]
                  /\ range[2] <= SS_len(state)

------------------------------------------------------------------------------
(***************************************************************************)
(* Claims about what clear and push leave unchanged in StreamState.        *)
(***************************************************************************)
\* C39: StreamState::clear() leaves the auto-follow flag and
\* viewport_height unchanged: if auto-follow was OFF before clear(), it is
\* still OFF afterwards and stays OFF while new items are pushed, until
\* scroll_to_bottom or enable_auto_scroll is called.
C39_ClearKeepsAutoFollowAndViewport ==
    [][LET cleared ==
               last'.op = "StreamState::clear"
                   => /\ state'.auto_scroll = state.auto_scroll
                      /\ state'.viewport_height = state.viewport_height
           pushed ==
               (/\ last.op \in {"StreamState::clear", "StreamState::push"}
                /\ ~state.auto_scroll
                /\ last'.op = "StreamState::push")
                   => /\ ~state'.auto_scroll
                      /\ state'.viewport_height = state.viewport_height
       IN  cleared /\ pushed]_vars

\* C39 witness: an item was pushed with auto-follow OFF onto a stream that
\* clear had emptied in the small viewport, and auto-follow is still OFF.
C39_Witness ==
    /\ IsCall("StreamState::push")
    /\ ~last.was_auto
    /\ ~state.auto_scroll
    /\ Len(state.items) = 1
    /\ state.height_cache = <<>>
    /\ state.viewport_height = Px(100)

\* C40: push(item) while auto-follow is OFF appends the item and its
\* id-map entry and sets the dirty flag but leaves scroll_offset,
\* auto-follow, the selection and the cached cumulative heights unchanged.
C40_PushWithoutFollowOnlyAppends ==
    [][(last'.op = "StreamState::push" /\ ~state.auto_scroll)
          => LET n    == Len(state.items)
                 item == state'.items[n + 1]
             IN  /\ Len(state'.items) = n + 1
                 /\ SubSeq(state'.items, 1, n) = state.items
                 /\ state'.item_index =
                        map_insert(state.item_index, item.id, n)
                 /\ state'.height_dirty
                 /\ state'.scroll_offset = state.scroll_offset
                 /\ ~state'.auto_scroll
                 /\ state'.selected_id = state.selected_id
                 /\ state'.height_cache = state.height_cache
                 /\ state'.total_height = state.total_height]_vars

\* C40 witness: a third item was pushed with auto-follow OFF onto a stream
\* with a selection, scrolled to the top of a small viewport; the cache
\* still holds the two cumulative heights of before.
C40_Witness ==
    /\ IsCall("StreamState::push")
    /\ ~last.was_auto
    /\ ~state.auto_scroll
    /\ SelectionPresent(state)
    /\ Len(state.items) = 3
    /\ state.item_index[state.items[3].id] = 2
    /\ Len(state.height_cache) = 2
    /\ state.height_dirty
    /\ state.scroll_offset = 0
    /\ SS_MaxScroll(state) > 0

==============================================================================
